---- MODULE Spec2Model ----
(***************************************************************************)
(* A model of retsu's task/step tracking subsystem (src/retsu/tracking.py):*)
(* TaskMetadataManager, StepMetadataManager, ResultTaskManager and the     *)
(* track_step decorator, running against one shared Redis hash store.      *)
(*                                                                         *)
(* Every Redis command (HSET, HGET) is one atomic step.  A method that     *)
(* issues several commands is a sequence of steps of the calling process,  *)
(* so that other processes interleave between its commands exactly where   *)
(* the code allows it.                                                     *)
(*                                                                         *)
(* Time is counted in ticks of 0.5 time units (the polling interval).      *)
(***************************************************************************)
EXTENDS Integers, Sequences, FiniteSets, TLC

---------------------------------------------------------------------------
(* Bounds of the model *)

\* the wall clock runs from 0 to MaxTime
MaxTime == 1
\* get is called with timeout None/0 (modelled as 0) or 1..MaxTimeout
MaxTimeout == 2

---------------------------------------------------------------------------
(* Python values.  A value is a record [k |-> type, v |-> text]. *)

Str(s) == [k |-> "str", v |-> s]
Bytes(s) == [k |-> "bytes", v |-> s]
None == [k |-> "none", v |-> ""]
\* a hash field that does not exist
Absent == [k |-> "absent", v |-> ""]

\* values returned by task functions and passed to save
Int42 == [k |-> "int", v |-> "42"]
Results == {Int42, None}

TaskIds == {"t1"}
StepIds == {"A", "B"}
Fields == {"status", "result", "updated_at"}
\* status texts callers use; "failed" stands for any third value
Statuses == {"started", "completed", "failed"}



\* redis-py encodes str arguments as UTF-8 and passes bytes through
encode(x) == IF x.k = "str" THEN Bytes(x.v) ELSE x
\* status as it would be without .decode("utf8")
decode_Missing(b) == b

\* bytes.decode("utf8")
decode(b) == Str(b.v)
\* datetime.now().isoformat() at clock value t
isoformat(t) == Str("T" \o ToString(t))
\* pickle.dumps: the byte string carries the type and the content
dumps(x) == Bytes("pickle:" \o x.k \o ":" \o x.v)
\* pickle.loads: the value whose pickle the bytes are; anything else
\* does not unpickle
CanLoad(b) == \E x \in Results : dumps(x) = b
loads(b) == CHOOSE x \in Results : dumps(x) = b
\* Python truth value of an hget reply (None and b"" are falsy)
Truthy(x) == x.k # "none" /\ ~(x.k = "bytes" /\ x.v = "")

---------------------------------------------------------------------------
(* The Redis store: hashes under string keys *)

TaskKey(t) == "task:" \o t \o ":metadata"
StepKey(t, s) == "task:" \o t \o ":step:" \o s
TaskKeys == {TaskKey(t) : t \in TaskIds}
StepKeys == {StepKey(t, s) : t \in TaskIds, s \in StepIds}
Keys == TaskKeys \cup StepKeys

EmptyHash == [f \in Fields |-> Absent]

\* HSET key field value
HSet(st, key, field, value) ==
    [st EXCEPT ![key] = [@ EXCEPT ![field] = encode(value)]]
\* HSET key f1 v1 f2 v2 ...: sets the given fields, keeps the others
HSetMapping(st, key, m) ==
    [st EXCEPT ![key] =
        [f \in Fields |-> IF f \in DOMAIN m THEN encode(m[f]) ELSE @[f]]]
\* HGET key field: the bytes, or None when the field does not exist
HGet(st, key, field) ==
    IF st[key][field] = Absent THEN None ELSE st[key][field]
\* HGETALL key: the fields that exist
HGetAll(st, key) ==
    [f \in {g \in Fields : st[key][g] # Absent} |-> st[key][f]]

---------------------------------------------------------------------------
(* Processes *)

Workers == {"w1", "w2"}
Clients == {"c1"}

VARIABLES
    store,   \* the Redis hashes: [Keys -> [Fields -> value]]
    now,     \* the wall clock read by datetime.now()
    worker,  \* the state of each worker-side caller
    client,  \* the state of each caller of ResultTaskManager.get
    scen     \* per task: how far create -> save -> completed has got

vars == <<store, now, worker, client, scen>>

\* outcomes of a call
NoOut == [kind |-> "none", val |-> None]
Returned(x) == [kind |-> "return", val |-> x]
Raised(type, msg) == [kind |-> type, val |-> Str(msg)]

\* raise Exception("Status should be started or completed.")
InvalidStatus == Raised("Exception", "Status should be started or completed.")
\* raise Exception("Timeout(get): ... Task status: {status}"), both branches
NotReady(status) ==
    Raised("Exception",
           "Timeout(get): Task result is not ready yet. Task status: "
               \o status.v)
\* None.decode("utf8")
NoDecode == Raised("AttributeError", "'NoneType' object has no attribute 'decode'")
\* pickle.loads of bytes that are no pickle
NoPickle == Raised("UnpicklingError", "invalid load key")
\* whatever the wrapped task function raises
FuncError == Raised("TaskError", "raised by the task function")

IdleWorker ==
    [pc |-> "idle", key |-> "", frame |-> "none", kwargs |-> <<>>,
     res |-> None, out |-> NoOut, clean |-> TRUE]
IdleClient ==
    [pc |-> "idle", task |-> "", timeout |-> 0, countdown |-> 0,
     sleeps |-> 0, seen |-> None, out |-> NoOut, quiet |-> TRUE,
     nc |-> TRUE, ready |-> FALSE, want |-> None]
NoScen == [phase |-> "none", val |-> None]

Init ==
    /\ store = [k \in Keys |-> EmptyHash]
    /\ now = 0
    /\ worker = [w \in Workers |-> IdleWorker]
    /\ client = [c \in Clients |-> IdleClient]
    /\ scen = [t \in TaskIds |-> NoScen]

\* the clock advances by itself
Tick ==
    /\ now < MaxTime
    /\ now' = now + 1
    /\ UNCHANGED <<store, worker, client, scen>>

\* Bookkeeping of every write: a running get notes that its task record
\* was written (quiet) or that its status, a value other than completed
\* when get was entered, has become completed (nc); a worker notes
\* that another process wrote the record its last call was about (clean).
InCall(c) == client[c].pc \notin {"idle", "done"}
ClientsSee(key, st) ==
    [c \in Clients |->
        IF InCall(c) /\ key = TaskKey(client[c].task)
        THEN [client[c] EXCEPT
                !.quiet = FALSE,
                !.nc = @ /\ st[key]["status"] # Bytes("completed")]
        ELSE client[c]]
OthersSee(w, key, wrec) ==
    [x \in Workers |->
        IF x = w THEN wrec
        ELSE IF worker[x].key = key THEN [worker[x] EXCEPT !.clean = FALSE]
        ELSE worker[x]]

---------------------------------------------------------------------------
(* TaskMetadataManager and the writing half of ResultTaskManager *)

\* mappings callers pass to create
CreateInputs ==
    {[status |-> Str(x)] : x \in Statuses}
        \cup {[status |-> Str("started"), updated_at |-> isoformat(now)]}
        \cup {[updated_at |-> isoformat(now)]}

\* the create -> save -> completed scenario of a task, as far as it got;
\* any write that is not its next step starts it over
\* (after a create the scenario holds the status the caller supplied)
ScenAfterCreate(m) ==
    IF DOMAIN m = {"status"} THEN [phase |-> "created", val |-> m["status"]]
    ELSE IF "status" \in DOMAIN m
    THEN [phase |-> "created_more", val |-> m["status"]]
    ELSE NoScen
ScenAfterSave(sc, v) ==
    IF sc.phase = "created" THEN [phase |-> "saving", val |-> v] ELSE NoScen
ScenAfterStatus(sc, value) ==
    IF sc.phase = "saved" /\ value = Str("completed")
    THEN [sc EXCEPT !.phase = "completing"] ELSE NoScen
ScenAfterStamp(sc) ==
    IF sc.phase = "saving" THEN [sc EXCEPT !.phase = "saved"]
    ELSE IF sc.phase = "completing" THEN [sc EXCEPT !.phase = "ready"]
    ELSE NoScen

\* what a worker does once update has returned to it
AfterUpdate(wrec) ==
    IF wrec.frame = "started" THEN [wrec EXCEPT !.pc = "func"]
    ELSE IF wrec.frame = "completed" THEN [wrec EXCEPT !.pc = "call_result"]
    ELSE IF wrec.frame = "result"
        THEN [wrec EXCEPT !.pc = "idle", !.frame = "none",
                          !.out = Returned(wrec.res), !.res = None]
    ELSE IdleWorker

\* TaskMetadataManager.create: one HSET with the whole mapping
TaskCreate(w, t, m) ==
    /\ worker[w].pc = "idle"
    /\ LET st == HSetMapping(store, TaskKey(t), m) IN
        /\ store' = st
        /\ client' = ClientsSee(TaskKey(t), st)
    /\ worker' = OthersSee(w, TaskKey(t), IdleWorker)
    /\ scen' = [scen EXCEPT ![t] = ScenAfterCreate(m)]
    /\ UNCHANGED now

\* TaskMetadataManager.update up to its first HSET: the attribute
TaskUpdateAttr(w, t, attribute, value, sc) ==
    /\ worker[w].pc = "idle"
    /\ LET st == HSet(store, TaskKey(t), attribute, value) IN
        /\ store' = st
        /\ client' = ClientsSee(TaskKey(t), st)
    /\ worker' = OthersSee(w, TaskKey(t),
                     [IdleWorker EXCEPT !.pc = "t_update_2",
                                        !.key = TaskKey(t)])
    /\ scen' = [scen EXCEPT ![t] = sc]
    /\ UNCHANGED now

\* a caller updates the task's status (any text is accepted)
TaskUpdate(w, t, value) ==
    TaskUpdateAttr(w, t, "status", value, ScenAfterStatus(scen[t], value))

\* ResultTaskManager.save
Save(w, t, result) ==
    TaskUpdateAttr(w, t, "result", dumps(result),
                   ScenAfterSave(scen[t], result))

\* update as it would be without its second HSET
TaskUpdateStamp_NoStamp(w) ==
    /\ worker[w].pc = "t_update_2"
    /\ worker' = OthersSee(w, worker[w].key, AfterUpdate(worker[w]))
    /\ scen' = [t \in TaskIds |->
                    IF TaskKey(t) = worker[w].key
                    THEN ScenAfterStamp(scen[t]) ELSE scen[t]]
    /\ UNCHANGED <<store, now, client>>

\* TaskMetadataManager.update, its second HSET: updated_at
TaskUpdateStamp(w) ==
    /\ worker[w].pc = "t_update_2"
    /\ LET st == HSet(store, worker[w].key, "updated_at", isoformat(now)) IN
        /\ store' = st
        /\ client' = ClientsSee(worker[w].key, st)
    /\ worker' = OthersSee(w, worker[w].key, AfterUpdate(worker[w]))
    /\ scen' = [t \in TaskIds |->
                    IF TaskKey(t) = worker[w].key
                    THEN ScenAfterStamp(scen[t]) ELSE scen[t]]
    /\ UNCHANGED now

---------------------------------------------------------------------------
(* StepMetadataManager and track_step *)

\* StepMetadataManager.create: one HSET with the whole mapping
StepCreate(w, t, s, m) ==
    /\ worker[w].pc = "idle"
    /\ store' = HSetMapping(store, StepKey(t, s), m)
    /\ worker' = OthersSee(w, StepKey(t, s), IdleWorker)
    /\ UNCHANGED <<now, client, scen>>


\* update as it would be without its test
ValidUpdate_NoTest(attribute, value) == TRUE

\* the test at the head of StepMetadataManager.update
ValidUpdate(attribute, value) ==
    ~(attribute = "status" /\ value \notin {Str("started"), Str("completed")})

\* StepMetadataManager.update up to its first HSET: the test and the
\* attribute.  wrec is the caller's state inside update.
StepUpdateAttr(w, key, attribute, value, wrec) ==
    /\ IF ValidUpdate(attribute, value)
       THEN /\ store' = HSet(store, key, attribute, value)
            /\ worker' = OthersSee(w, key,
                            [wrec EXCEPT !.pc = "s_update_2", !.key = key])
       ELSE /\ store' = store
            /\ worker' = [worker EXCEPT ![w] =
                            [IdleWorker EXCEPT !.key = key,
                                               !.out = InvalidStatus]]
    /\ UNCHANGED <<now, client, scen>>

\* a caller calls StepMetadataManager.update itself
StepUpdate(w, t, s, attribute, value) ==
    /\ worker[w].pc = "idle"
    /\ StepUpdateAttr(w, StepKey(t, s), attribute, value, IdleWorker)

\* the step store's update as it would be if its second HSET used the
\* task's key
StepUpdateStamp_TaskKey(w) ==
    /\ worker[w].pc = "s_update_2"
    /\ store' = HSet(store,
                     TaskKey(CHOOSE t \in TaskIds :
                                \E s \in StepIds : StepKey(t, s) = worker[w].key),
                     "updated_at", isoformat(now))
    /\ worker' = OthersSee(w, worker[w].key, AfterUpdate(worker[w]))
    /\ UNCHANGED <<now, client, scen>>

\* StepMetadataManager.update, its second HSET: updated_at
StepUpdateStamp(w) ==
    /\ worker[w].pc = "s_update_2"
    /\ store' = HSet(store, worker[w].key, "updated_at", isoformat(now))
    /\ worker' = OthersSee(w, worker[w].key, AfterUpdate(worker[w]))
    /\ UNCHANGED <<now, client, scen>>

\* the name of the decorated function
FuncName == "A"
\* kwargs of a call of the wrapper
KwargsInputs ==
    {[task_id |-> t] : t \in TaskIds}
        \cup {[task_id |-> t, step_id |-> s] : t \in TaskIds, s \in StepIds}

\* the wrapper as it would be if it always took the function's name
StepIdOf_NameOnly(kwargs) == FuncName

\* kwargs.get("step_id", task_func.__name__)
StepIdOf(kwargs) ==
    IF "step_id" \in DOMAIN kwargs THEN kwargs.step_id ELSE FuncName

\* wrapper, lines 171-176: the ids, then update(..., "status", "started")
TrackStepCall(w, kwargs) ==
    /\ worker[w].pc = "idle"
    /\ StepUpdateAttr(w, StepKey(kwargs.task_id, StepIdOf(kwargs)),
                      "status", Str("started"),
                      [IdleWorker EXCEPT !.frame = "started",
                                         !.kwargs = kwargs])

\* line 177: the task function returns a value
TrackStepFuncReturns(w, r) ==
    /\ worker[w].pc = "func"
    /\ worker' = [worker EXCEPT ![w] =
                    [@ EXCEPT !.pc = "call_completed", !.res = r]]
    /\ UNCHANGED <<store, now, client, scen>>


\* the wrapper as it would be with a finally: that marks the step completed
TrackStepFuncRaises_Finally(w) ==
    /\ worker[w].pc = "func"
    /\ store' = HSet(store, worker[w].key, "status", Str("completed"))
    /\ worker' = [worker EXCEPT ![w] =
                    [@ EXCEPT !.pc = "idle", !.frame = "none",
                              !.out = FuncError]]
    /\ UNCHANGED <<now, client, scen>>

\* line 177: the task function raises, and so does the wrapper
TrackStepFuncRaises(w) ==
    /\ worker[w].pc = "func"
    /\ worker' = [worker EXCEPT ![w] =
                    [@ EXCEPT !.pc = "idle", !.frame = "none",
                              !.out = FuncError]]
    /\ UNCHANGED <<store, now, client, scen>>

\* line 178: update(..., "status", "completed")
TrackStepCompleted(w) ==
    /\ worker[w].pc = "call_completed"
    /\ StepUpdateAttr(w, worker[w].key, "status", Str("completed"),
                      [worker[w] EXCEPT !.frame = "completed"])

\* lines 179-180: update(..., "result", pickle.dumps(result))
TrackStepResult(w) ==
    /\ worker[w].pc = "call_result"
    /\ StepUpdateAttr(w, worker[w].key, "result", dumps(worker[w].res),
                      [worker[w] EXCEPT !.frame = "result"])

---------------------------------------------------------------------------
(* ResultTaskManager.get *)

\* status as it would be if a missing field read as an empty text
status_EmptyWhenAbsent(t) ==
    LET s == HGet(store, TaskKey(t), "status") IN
    IF s = None THEN Returned(Str("")) ELSE Returned(decode(s))

\* ResultTaskManager.status: the outcome of one call
status(t) ==
    LET s == HGet(store, TaskKey(t), "status") IN
    IF s = None THEN NoDecode ELSE Returned(decode(s))

time_step == 1
TicksPerUnit == 2

\* get(task_id, timeout) is entered; timeout 0 stands for None as well
GetCall(c, t, timeout) ==
    /\ client[c].pc \in {"idle", "done"}
    /\ client' = [client EXCEPT ![c] =
            [pc |-> IF timeout # 0 THEN "while" ELSE "elif",
             task |-> t, timeout |-> timeout,
             countdown |-> IF timeout # 0 THEN TicksPerUnit * timeout ELSE 0,
             sleeps |-> 0, seen |-> None, out |-> NoOut, quiet |-> TRUE,
             nc |-> store[TaskKey(t)]["status"]
                        \notin {Absent, Bytes("completed")},
             ready |-> scen[t].phase = "ready",
             want |-> IF scen[t].phase = "ready" THEN scen[t].val ELSE None]]
    /\ UNCHANGED <<store, now, worker, scen>>

\* a status check of get: the while condition or the elif condition
GetCheck(c, at, otherwise) ==
    /\ client[c].pc = at
    /\ LET s == status(client[c].task) IN
        client' = [client EXCEPT ![c] =
            IF s.kind # "return"
            THEN [@ EXCEPT !.pc = "done", !.out = s]
            ELSE IF s.val # Str("completed")
            THEN [@ EXCEPT !.pc = otherwise, !.seen = s.val]
            ELSE [@ EXCEPT !.pc = "fetch", !.seen = s.val]]
    /\ UNCHANGED <<store, now, worker, scen>>

\* line 113
GetWhile(c) == GetCheck(c, "while", "sleep")
\* line 123
GetElif(c) == GetCheck(c, "elif", "elif_raise")


\* get as it would be if it tested timeout_countdown < 0
GetSleep_StrictCountdown(c) ==
    /\ client[c].pc = "sleep"
    /\ client' = [client EXCEPT ![c] =
            [@ EXCEPT !.sleeps = @ + 1,
                      !.countdown = @ - 1,
                      !.pc = IF client[c].countdown - 1 < 0
                             THEN "while_raise" ELSE "while"]]
    /\ UNCHANGED <<store, now, worker, scen>>

\* lines 114-116: sleep one time step, count down, test the countdown
GetSleep(c) ==
    /\ client[c].pc = "sleep"
    /\ client' = [client EXCEPT ![c] =
            [@ EXCEPT !.sleeps = @ + 1,
                      !.countdown = @ - time_step,
                      !.pc = IF client[c].countdown - time_step <= 0
                             THEN "while_raise" ELSE "while"]]
    /\ UNCHANGED <<store, now, worker, scen>>

\* lines 117-121 and 124-128: read the status again and raise with it
GetRaise(c, at) ==
    /\ client[c].pc = at
    /\ LET s == status(client[c].task) IN
        client' = [client EXCEPT ![c] =
            [@ EXCEPT !.pc = "done",
                      !.out = IF s.kind # "return" THEN s
                              ELSE NotReady(s.val)]]
    /\ UNCHANGED <<store, now, worker, scen>>

GetTimeoutRaise(c) == GetRaise(c, "while_raise")
GetElifRaise(c) == GetRaise(c, "elif_raise")


\* get as it would be if it unpickled whatever it read
GetFetch_AlwaysLoads(c) ==
    /\ client[c].pc = "fetch"
    /\ LET result == HGet(store, TaskKey(client[c].task), "result") IN
        client' = [client EXCEPT ![c] =
            [@ EXCEPT !.pc = "done",
                      !.out = IF CanLoad(result)
                              THEN Returned(loads(result))
                              ELSE NoPickle]]
    /\ UNCHANGED <<store, now, worker, scen>>

\* get as it would be if it cleared the result it fetched
GetFetch_Consume(c) ==
    /\ client[c].pc = "fetch"
    /\ LET result == HGet(store, TaskKey(client[c].task), "result") IN
        client' = [client EXCEPT ![c] =
            [@ EXCEPT !.pc = "done",
                      !.out = IF ~Truthy(result) THEN Returned(result)
                              ELSE IF CanLoad(result)
                              THEN Returned(loads(result))
                              ELSE NoPickle]]
    /\ store' = HSet(store, TaskKey(client[c].task), "result", Bytes(""))
    /\ UNCHANGED <<now, worker, scen>>

\* get as it would be if it handed back the stored bytes
GetFetch_NoUnpickle(c) ==
    /\ client[c].pc = "fetch"
    /\ client' = [client EXCEPT ![c] =
            [@ EXCEPT !.pc = "done",
                      !.out = Returned(HGet(store, TaskKey(client[c].task),
                                            "result"))]]
    /\ UNCHANGED <<store, now, worker, scen>>

\* lines 129-130
GetFetch(c) ==
    /\ client[c].pc = "fetch"
    /\ LET result == HGet(store, TaskKey(client[c].task), "result") IN
        client' = [client EXCEPT ![c] =
            [@ EXCEPT !.pc = "done",
                      !.out = IF ~Truthy(result) THEN Returned(result)
                              ELSE IF CanLoad(result)
                              THEN Returned(loads(result))
                              ELSE NoPickle]]
    /\ UNCHANGED <<store, now, worker, scen>>

---------------------------------------------------------------------------
(* The task side: one worker writes the task record while a client polls *)

TaskWorkers == {"w1"}
Timeouts == 0 .. MaxTimeout

TaskNext ==
    \/ Tick
    \/ \E w \in TaskWorkers, t \in TaskIds, m \in CreateInputs :
            TaskCreate(w, t, m)
    \/ \E w \in TaskWorkers, t \in TaskIds, x \in Statuses :
            TaskUpdate(w, t, Str(x))
    \/ \E w \in TaskWorkers, t \in TaskIds, r \in Results : Save(w, t, r)
    \/ \E w \in TaskWorkers : TaskUpdateStamp(w)
    \/ \E c \in Clients, t \in TaskIds, timeout \in Timeouts :
            GetCall(c, t, timeout)
    \/ \E c \in Clients : GetWhile(c)
    \/ \E c \in Clients : GetSleep(c)
    \/ \E c \in Clients : GetTimeoutRaise(c)
    \/ \E c \in Clients : GetElif(c)
    \/ \E c \in Clients : GetElifRaise(c)
    \/ \E c \in Clients : GetFetch(c)

SpecTask == Init /\ [][TaskNext]_vars

\* the polling thread keeps running: a step of get that can be taken is
\* eventually taken
ClientStep(c) ==
    \/ GetWhile(c) \/ GetSleep(c) \/ GetTimeoutRaise(c)
    \/ GetElif(c) \/ GetElifRaise(c) \/ GetFetch(c)
FairSpecTask == SpecTask /\ \A c \in Clients : WF_vars(ClientStep(c))

---------------------------------------------------------------------------
(* The reading half of ResultTaskManager next to get: status and load,   *)
(* called by the client between its calls of get                          *)

\* ResultTaskManager.status called by itself: one HGET, then the decoding
StatusCall(c, t) ==
    /\ client[c].pc \in {"idle", "done"}
    /\ client' = [client EXCEPT ![c] =
            [IdleClient EXCEPT !.task = t, !.out = status(t)]]
    /\ UNCHANGED <<store, now, worker, scen>>

\* ResultTaskManager.load: one HGETALL
LoadCall(c, t) ==
    /\ client[c].pc \in {"idle", "done"}
    /\ client' = [client EXCEPT ![c] =
            [IdleClient EXCEPT !.task = t,
                               !.out = [kind |-> "return",
                                        val |-> HGetAll(store, TaskKey(t))]]]
    /\ UNCHANGED <<store, now, worker, scen>>

ReadNext ==
    \/ TaskNext
    \/ \E c \in Clients, t \in TaskIds : StatusCall(c, t)
    \/ \E c \in Clients, t \in TaskIds : LoadCall(c, t)

SpecRead == Init /\ [][ReadNext]_vars

---------------------------------------------------------------------------
(* The step side: workers write step records, directly and through       *)
(* track_step.  The clock stands still here: no step-side claim depends   *)
(* on which time a write stamps.  Every worker calls the step store       *)
(* itself; the workers in Wrappers also run decorated functions.          *)

Wrappers == {"w1"}

\* arguments of direct calls of StepMetadataManager.update
StepUpdateInputs ==
    {<<"status", Str(x)>> : x \in Statuses}
        \cup {<<"status", Bytes("started")>>}
        \cup {<<"result", dumps(r)>> : r \in Results}

StepNext ==
    \/ \E w \in Workers, t \in TaskIds, s \in StepIds, m \in CreateInputs :
            StepCreate(w, t, s, m)
    \/ \E w \in Workers, t \in TaskIds, s \in StepIds,
          a \in StepUpdateInputs : StepUpdate(w, t, s, a[1], a[2])
    \/ \E w \in Workers : StepUpdateStamp(w)
    \/ \E w \in Wrappers, kwargs \in KwargsInputs : TrackStepCall(w, kwargs)
    \/ \E w \in Wrappers, r \in Results : TrackStepFuncReturns(w, r)
    \/ \E w \in Wrappers : TrackStepFuncRaises(w)
    \/ \E w \in Wrappers : TrackStepCompleted(w)
    \/ \E w \in Wrappers : TrackStepResult(w)

SpecStep == Init /\ [][StepNext]_vars

---------------------------------------------------------------------------
(* The whole program.  The two sides write disjoint keys, and the claims  *)
(* are checked on each side by itself.                                    *)

Next == TaskNext \/ StepNext

Spec == Init /\ [][Next]_vars

---------------------------------------------------------------------------
(* Claims about ResultTaskManager *)

\* C1: after create(task_id, {status: s}), save(task_id, v) and the update
\* of status to "completed", with no other write to the record before or
\* during the call, get returns exactly v, for timeout None and for every
\* positive timeout, without raising and without sleeping.
C1_SaveCompleteGetRoundTrip ==
    \A c \in Clients :
        client[c].pc = "done" /\ client[c].ready /\ client[c].quiet
            => /\ client[c].out = Returned(client[c].want)
               /\ client[c].sleeps = 0

C1_Witness ==
    \E c \in Clients :
        /\ client[c].pc = "done" /\ client[c].ready /\ client[c].quiet
        /\ client[c].timeout > 0
        /\ client[c].out = Returned(Int42)

\* C2: get without a timeout that fails carries the status its single
\* check observed, which is never "completed".
C2_NotReadyCarriesObserved ==
    \A c \in Clients :
        client[c].pc = "done" /\ client[c].timeout = 0
            /\ client[c].out.kind = "Exception"
            => /\ client[c].out = NotReady(client[c].seen)
               /\ client[c].out # NotReady(Str("completed"))

\* C3: get with a positive timeout never raises its timeout error with
\* the status "completed" in it.
C3_TimeoutNeverCompleted ==
    \A c \in Clients :
        client[c].pc = "done" /\ client[c].timeout > 0
            /\ client[c].out.kind = "Exception"
            => client[c].out # NotReady(Str("completed"))

\* where a get with a positive timeout stands while the status is a value
\* other than "completed": it polls with fewer than 2*T sleeps behind it,
\* or raises with exactly 2*T
C4_Polling ==
    \A c \in Clients :
        client[c].timeout > 0 /\ client[c].nc /\ client[c].pc # "idle"
            => /\ client[c].pc = "done"
                    => /\ client[c].out.kind = "Exception"
                       /\ client[c].out # NotReady(Str("completed"))
                       /\ client[c].sleeps = TicksPerUnit * client[c].timeout
               /\ client[c].pc \in {"while", "sleep"}
                    => client[c].sleeps < TicksPerUnit * client[c].timeout
               /\ client[c].pc = "while_raise"
                    => client[c].sleeps = TicksPerUnit * client[c].timeout
               /\ client[c].pc \in {"while", "sleep", "while_raise", "done"}

\* C4: with a positive integer timeout T and a status that is never
\* "completed" during the call, get sleeps exactly 2*T times and then
\* raises the timeout error; it does not raise before (a check with fewer
\* than 2*T sleeps behind it is followed by a sleep), and the call always
\* terminates.
C4_TimeoutAfterExactly2TSleeps ==
    /\ []C4_Polling
    /\ \A c \in Clients : InCall(c) ~> (client[c].pc = "done")

C4_Witness ==
    \E c \in Clients :
        /\ client[c].pc = "done" /\ client[c].nc
        /\ client[c].timeout = 2 /\ client[c].sleeps = 4
        /\ client[c].out = NotReady(Str("started"))

---------------------------------------------------------------------------
(* Claims about StepMetadataManager and track_step *)

StatusArgs == {Str(x) : x \in Statuses} \cup {Bytes("started")}
Accepted == {Str("started"), Str("completed")}

\* C5: StepMetadataManager.update(task_id, step_id, "status", v) with v
\* other than "started" and "completed" raises and leaves the whole store,
\* updated_at included, as it was; with v one of the two it writes v,
\* whatever the record held before.
C5_StepStatusUpdate ==
    [][\A w \in Workers :
        \* only a caller that was idle and is now inside update, or is
        \* left with the error, can have called update
        (/\ worker[w].pc = "idle"
         /\ \/ worker'[w].out = InvalidStatus
            \/ worker'[w].pc = "s_update_2" /\ worker'[w].frame = "none")
        => \A t \in TaskIds, s \in StepIds, v \in StatusArgs :
            StepUpdate(w, t, s, "status", v)
                => IF v \in Accepted
                   THEN /\ store'[StepKey(t, s)]["status"] = Bytes(v.v)
                        /\ worker'[w].pc = "s_update_2"
                        /\ worker'[w].out = NoOut
                   ELSE /\ store' = store
                        /\ worker'[w].pc = "idle"
                        /\ worker'[w].out = InvalidStatus]_vars

C5_Witness ==
    \E w \in Workers :
        /\ worker[w].out = InvalidStatus
        /\ worker[w].key \in StepKeys
        /\ store[worker[w].key]["status"] = Bytes("completed")
        /\ store[worker[w].key]["updated_at"] # Absent

\* C6: the status of every step record is absent, "started" or
\* "completed" in every reachable state.
C6_StepStatusTwoState ==
    \A k \in StepKeys :
        store[k]["status"] \in {Absent, Bytes("started"), Bytes("completed")}

\* the step record a call of the wrapper with these kwargs is about
StepOfCall(kwargs) ==
    StepKey(kwargs.task_id,
            IF "step_id" \in DOMAIN kwargs THEN kwargs.step_id ELSE "A")

InWrapper(w, pcs, frames) ==
    /\ worker[w].clean
    /\ worker[w].pc \in pcs
    /\ worker[w].frame \in frames

\* C7: in a call of the wrapper whose step record nobody else writes, the
\* record's status is "started" from the first write until the function
\* has returned and "completed" from then on; when the wrapper has
\* returned r, the record has status "completed" and a result that
\* unpickles to r.  The record is the one of step_id, or of the function's
\* name when no step_id is passed.
C7_TrackStepReturns ==
    \A w \in Workers :
        LET rec == store[StepOfCall(worker[w].kwargs)] IN
        /\ InWrapper(w, {"s_update_2", "func", "call_completed"}, {"started"})
            => rec["status"] = Bytes("started")
        /\ InWrapper(w, {"s_update_2", "call_result"}, {"completed", "result"})
            => rec["status"] = Bytes("completed")
        /\ InWrapper(w, {"idle"}, {"none"}) /\ worker[w].out.kind = "return"
            => /\ rec["status"] = Bytes("completed")
               /\ CanLoad(rec["result"])
               /\ loads(rec["result"]) = worker[w].out.val

C7_Witness ==
    \E w \in Workers :
        /\ InWrapper(w, {"idle"}, {"none"})
        /\ worker[w].out = Returned(Int42)
        /\ "step_id" \notin DOMAIN worker[w].kwargs
        /\ store[StepKey("t1", "A")]["result"] = dumps(Int42)

\* a step of worker w inside its call of the wrapper, before the function
\* has returned
EarlyWrapperStep(w) ==
    /\ worker'[w].pc # worker[w].pc
    /\ \/ worker'[w].frame = "started"
       \/ worker[w].frame = "started" /\ worker'[w].frame = "none"

C8_Raised ==
    \A w \in Workers :
        worker[w].out = FuncError /\ worker[w].clean
            => /\ worker[w].pc = "idle"
               /\ store[worker[w].key]["status"] = Bytes("started")

C8_Steps ==
    \A w \in Workers :
        /\ TrackStepFuncRaises(w)
            => store' = store /\ worker'[w].out = FuncError
        /\ EarlyWrapperStep(w)
            => /\ store'[worker'[w].key]["result"]
                    = store[worker'[w].key]["result"]
               /\ store'[worker'[w].key]["status"]
                    \in {store[worker'[w].key]["status"], Bytes("started")}

\* C8: when the wrapped function raises, the wrapper raises too; up to
\* then it has written no result and no status "completed", and the
\* status it wrote stays "started" until another call writes the record.
C8_TrackStepRaises == []C8_Raised /\ [][C8_Steps]_vars

C8_Witness ==
    \E w \in Workers :
        /\ worker[w].out = FuncError /\ worker[w].clean
        /\ store[worker[w].key]["status"] = Bytes("started")
        /\ store[worker[w].key]["result"] = Absent
        /\ store[worker[w].key]["updated_at"] # Absent

---------------------------------------------------------------------------
(* Claims about create and updated_at *)

\* the fields of a mapping as HGETALL shows them once stored
Stored(m) == [f \in DOMAIN m |-> encode(m[f])]

\* C9: right after create(id, fields), on the task store and on the step
\* store, the record holds exactly the supplied fields and nothing written
\* earlier.
C9_CreateReplaces ==
    [][\A w \in Workers, t \in TaskIds, m \in CreateInputs :
        /\ TaskCreate(w, t, m) => HGetAll(store', TaskKey(t)) = Stored(m)
        /\ \A s \in StepIds :
            StepCreate(w, t, s, m)
                => HGetAll(store', StepKey(t, s)) = Stored(m)]_vars

\* C10 as claimed: create, update and save each leave updated_at present
\* and equal to the time of the operation.
C10_EveryMutationStamps ==
    [][\A w \in Workers, t \in TaskIds :
        (\/ \E m \in CreateInputs : TaskCreate(w, t, m)
         \/ TaskUpdateStamp(w) /\ worker[w].key = TaskKey(t))
        => store'[TaskKey(t)]["updated_at"] = Bytes("T" \o ToString(now))]_vars

C10_NoUpdateRunning ==
    \A w \in Workers : worker[w].pc # "t_update_2"

C10_Stamped ==
    \A t \in TaskIds :
        C10_NoUpdateRunning /\ store[TaskKey(t)]["result"] # Absent
            => store[TaskKey(t)]["updated_at"] # Absent

C10_Steps ==
    \A w \in Workers, t \in TaskIds :
        /\ TaskUpdateStamp(w) /\ worker[w].key = TaskKey(t)
            => store'[TaskKey(t)]["updated_at"] = Bytes("T" \o ToString(now))
        /\ \A m \in CreateInputs :
            TaskCreate(w, t, m)
                => store'[TaskKey(t)]["updated_at"]
                    = IF "updated_at" \in DOMAIN m
                      THEN Bytes(m["updated_at"].v)
                      ELSE store[TaskKey(t)]["updated_at"]

\* C10: update and save leave updated_at present and equal to the time
\* they read when they finish, so a record with a result and no update
\* under way has an updated_at; create stores updated_at only when the
\* caller supplies it and otherwise leaves the field as it was.
C10_UpdateAndSaveStamp == []C10_Stamped /\ [][C10_Steps]_vars

C10_Witness ==
    /\ C10_NoUpdateRunning
    /\ store[TaskKey("t1")]["result"] = dumps(Int42)
    /\ store[TaskKey("t1")]["status"] = Bytes("completed")
    /\ store[TaskKey("t1")]["updated_at"] = Bytes("T1")

---------------------------------------------------------------------------
(* Claims about records keeping apart *)

\* a step of worker w that belongs to an operation addressed to step s of
\* task t: a create, an update, or a step of a wrapped call
OpOnStep(w, t, s) ==
    \/ /\ worker[w].pc = "idle"
       /\ worker'[w].pc = "idle"
       /\ \E m \in CreateInputs : StepCreate(w, t, s, m)
    \/ /\ worker[w].pc = "idle"
       /\ worker'[w].key = StepKey(t, s)
       /\ \/ \E a \in StepUpdateInputs : StepUpdate(w, t, s, a[1], a[2])
          \/ \E kwargs \in KwargsInputs :
                /\ kwargs.task_id = t
                /\ StepIdOf(kwargs) = s
                /\ TrackStepCall(w, kwargs)
    \/ /\ worker[w].key = StepKey(t, s)
       /\ worker[w].pc # "idle"
       /\ worker'[w].pc # worker[w].pc

\* C11: an operation addressed to step B of a task, interleaved in any way
\* with operations on step A, leaves every field of step A's record and
\* of the task's own record as it was.
C11_OtherStepUntouched ==
    [][\A w \in Workers, t \in TaskIds, b \in StepIds :
        store' # store /\ OpOnStep(w, t, b)
            => /\ \A a \in StepIds \ {b} :
                    store'[StepKey(t, a)] = store[StepKey(t, a)]
               /\ store'[TaskKey(t)] = store[TaskKey(t)]]_vars

C11_Witness ==
    /\ store[StepKey("t1", "A")]["status"] = Bytes("completed")
    /\ store[StepKey("t1", "A")]["result"] = dumps(Int42)
    /\ store[StepKey("t1", "B")]["status"] = Bytes("started")
    /\ store[StepKey("t1", "B")]["result"] = Absent
    /\ worker["w1"].pc = "idle" /\ worker["w1"].key = StepKey("t1", "A")
    /\ worker["w2"].pc = "s_update_2" /\ worker["w2"].key = StepKey("t1", "B")

---------------------------------------------------------------------------
(* Claims about the reading calls *)

\* a step of a reading call of client c: get, status or load
ReadStep(c) ==
    \/ ClientStep(c)
    \/ \E t \in TaskIds, timeout \in Timeouts : GetCall(c, t, timeout)
    \/ \E t \in TaskIds : StatusCall(c, t) \/ LoadCall(c, t)

\* C12: get (with and without timeout, returning and raising), status and
\* load never write: every task and step record is the same after each
\* of their steps as before it.
C12_ReadsDoNotWrite ==
    [][\A c \in Clients : ReadStep(c) => store' = store]_vars

C12_Witness ==
    \E c \in Clients :
        /\ client[c].pc = "done" /\ client[c].timeout > 0
        /\ client[c].out = NotReady(Str("started"))
        /\ store[TaskKey(client[c].task)]["result"] = dumps(Int42)
        /\ store[TaskKey(client[c].task)]["updated_at"] # Absent

\* C13: after create(task_id, metadata) with a status s in metadata, a
\* status(task_id) made before any other write returns exactly s.
C13_StatusAfterCreate ==
    [][\A c \in Clients, t \in TaskIds :
        StatusCall(c, t) /\ scen[t].phase \in {"created", "created_more"}
            => client'[c].out = Returned(scen[t].val)]_vars

C13_Witness ==
    \E c \in Clients :
        /\ client[c].pc = "idle" /\ client[c].task \in TaskIds
        /\ scen[client[c].task].phase = "created_more"
        /\ client[c].out = Returned(Str("started"))

\* C14: while the task record has no status field, status raises instead
\* of returning, and get raises the same error at its first status check,
\* with and without a timeout: no result, no sleep, no write.
C14_NoStatusRaises ==
    [][\A c \in Clients :
        /\ \A t \in TaskIds :
            StatusCall(c, t) /\ store[TaskKey(t)]["status"] = Absent
                => client'[c].out = NoDecode
        /\ (GetWhile(c) \/ GetElif(c))
                /\ store[TaskKey(client[c].task)]["status"] = Absent
                => /\ client'[c].pc = "done"
                   /\ client'[c].out = NoDecode
                   /\ client'[c].sleeps = 0
                   /\ store' = store]_vars

C14_Witness ==
    \E c \in Clients :
        /\ client[c].pc = "done" /\ client[c].timeout > 0
        /\ client[c].out = NoDecode /\ client[c].sleeps = 0
        /\ store[TaskKey(client[c].task)]["status"] = Absent
        /\ store[TaskKey(client[c].task)]["updated_at"] # Absent

---------------------------------------------------------------------------
(* Claims about the outcomes of get *)

\* the errors the timeout branch of get raises (lines 117-121)
TimeoutErrors == {NotReady(Str(x)) : x \in Statuses}

\* C15: the error of a get without timeout that finds the task not
\* completed differs from the error a get with a timeout raises on timing
\* out, also for the same status.
C15_ErrorsDistinct ==
    \A c \in Clients :
        client[c].pc = "done" /\ client[c].timeout = 0
            /\ client[c].out.kind = "Exception"
            => client[c].out \notin TimeoutErrors

\* C16: a get with a timeout that is still sleeping, its time not yet
\* used up, while the status is "completed" and stays so, goes on to
\* return the result: it does not leave the loop to raise the timeout error.
C16_CompletedInTimeReturns ==
    [][\A c \in Clients :
        /\ client[c].pc = "sleep" /\ client[c].countdown > 0
        /\ store[TaskKey(client[c].task)]["status"] = Bytes("completed")
        /\ store'[TaskKey(client[c].task)]["status"] = Bytes("completed")
        => client'[c].pc # "while_raise"]_vars

\* C17: update writes the attribute and updated_at as one update: no
\* reader sees a record with a result written by update and without the
\* updated_at of that update.
C17_UpdateIsOneWrite ==
    \A c \in Clients :
        client[c].pc = "idle" /\ client[c].out.kind = "return"
            /\ "result" \in DOMAIN client[c].out.val
            => "updated_at" \in DOMAIN client[c].out.val

\* C20: a get that saw "completed" returns None as it is when the record
\* has no result field, and otherwise the value whose pickle the last save
\* wrote; only save writes the result field.
C20_GetReturnsLastSaved ==
    [][/\ \A c \in Clients :
            client[c].pc = "fetch" /\ GetFetch(c)
                => LET result == store[TaskKey(client[c].task)]["result"] IN
                    IF result = Absent
                    THEN client'[c].out = Returned(None)
                    ELSE \E r \in Results :
                            /\ result = dumps(r)
                            /\ client'[c].out = Returned(r)
       /\ \A t \in TaskIds :
            store'[TaskKey(t)]["result"] # store[TaskKey(t)]["result"]
                => \E w \in TaskWorkers, r \in Results :
                        /\ Save(w, t, r)
                        /\ store'[TaskKey(t)]["result"] = dumps(r)]_vars

C20_Witness ==
    \E c \in Clients :
        /\ client[c].pc = "done" /\ client[c].seen = Str("completed")
        /\ client[c].out = Returned(None)
        /\ store[TaskKey(client[c].task)]["result"] = Absent

---------------------------------------------------------------------------
(* The wrapper by itself: step records that only track_step writes *)

WrapNext ==
    \/ Tick
    \/ \E w \in Wrappers, kwargs \in KwargsInputs : TrackStepCall(w, kwargs)
    \/ \E w \in Wrappers : StepUpdateStamp(w)
    \/ \E w \in Wrappers, r \in Results : TrackStepFuncReturns(w, r)
    \/ \E w \in Wrappers : TrackStepFuncRaises(w)
    \/ \E w \in Wrappers : TrackStepCompleted(w)
    \/ \E w \in Wrappers : TrackStepResult(w)

SpecWrap == Init /\ [][WrapNext]_vars

\* C19: a step record that only wrapped calls write never shows the status
\* "completed" without a result field holding a pickled return value.
C19_CompletedHasResult ==
    \A t \in TaskIds, s \in StepIds :
        store[StepKey(t, s)]["status"] = Bytes("completed")
            => \E r \in Results : store[StepKey(t, s)]["result"] = dumps(r)

---------------------------------------------------------------------------
(* Keys of identifiers that contain the separator *)

\* task_id and step_id are any str: some with ":" in them
ColonTaskIds == {"a", "a:step:b"}
ColonStepIds == {"b:metadata"}
ColonKeys ==
    {TaskKey(t) : t \in ColonTaskIds}
        \cup {StepKey(t, s) : t \in ColonTaskIds, s \in ColonStepIds}

InitKeys ==
    /\ store = [k \in ColonKeys |-> EmptyHash]
    /\ now = 0
    /\ worker = [w \in Workers |-> IdleWorker]
    /\ client = [c \in Clients |-> IdleClient]
    /\ scen = [t \in ColonTaskIds |-> NoScen]

KeysNext ==
    \/ \E w \in TaskWorkers, t \in ColonTaskIds, m \in CreateInputs :
            TaskCreate(w, t, m)
    \/ \E w \in TaskWorkers, t \in ColonTaskIds, s \in ColonStepIds,
          m \in CreateInputs : StepCreate(w, t, s, m)

SpecKeys == InitKeys /\ [][KeysNext]_vars

\* C18: distinct record identities have distinct keys, whatever text the
\* identifiers are: a create addressed to one task or step record changes
\* the record of no other task and of no other step.
C18_DistinctRecords ==
    [][\A w \in TaskWorkers, t \in ColonTaskIds :
        /\ (\E m \in CreateInputs : TaskCreate(w, t, m))
            => /\ \A t2 \in ColonTaskIds \ {t} :
                    store'[TaskKey(t2)] = store[TaskKey(t2)]
               /\ \A t2 \in ColonTaskIds, s2 \in ColonStepIds :
                    store'[StepKey(t2, s2)] = store[StepKey(t2, s2)]
        /\ \A s \in ColonStepIds :
            (\E m \in CreateInputs : StepCreate(w, t, s, m))
            => /\ \A t2 \in ColonTaskIds :
                    store'[TaskKey(t2)] = store[TaskKey(t2)]
               /\ \A t2 \in ColonTaskIds, s2 \in ColonStepIds :
                    <<t2, s2>> # <<t, s>>
                        => store'[StepKey(t2, s2)] = store[StepKey(t2, s2)]
      ]_vars

====
